---- MODULE Spec2Model ----
(***************************************************************************)
(* Water Buddy (src/app.py): the profile, logs and badges tables, the      *)
(* hydration rules computed from them, and the handlers that change them.  *)
(*                                                                         *)
(* Time is counted in ticks of half a day.  datetime.utcnow() reads `now`, *)
(* date.today() reads the local clock `now + tz`.  A stored timestamp is   *)
(* the ISO text of a naive datetime; comparing two such texts compares the *)
(* datetimes, so a timestamp is modelled by its tick.                      *)
(*                                                                         *)
(* Python floats are IEEE-754 doubles.  They are modelled exactly: a       *)
(* double is a record [m, e] standing for m * 2^e, m a natural number      *)
(* below 2^53 kept as a little-endian sequence of 14-bit limbs, and every  *)
(* float product and quotient is rounded to nearest, ties to even.         *)
(***************************************************************************)
EXTENDS Integers, Sequences, FiniteSets

VARIABLES
    now,      \* the UTC clock, in ticks
    tz,       \* local clock minus UTC clock, in ticks
    profile,  \* the newest row of table profile (the row get_profile reads), or NoProfile
    logs,     \* table logs, in id order: rows [logged_at, amount_ml]
    badges,   \* table badges, in id order: rows [name, earned_at]
    pc,       \* where the running handler stands: "idle" or "logged"
    evals,    \* how many times check_badges_and_streaks has been entered
    evalSaw,  \* the number of rows of logs when it was last entered
    call      \* the function call of the pure-function specifications, or NoCall

vars == <<now, tz, profile, logs, badges, pc, evals, evalSaw, call>>

-----------------------------------------------------------------------------
(* Natural numbers of any size: little-endian sequences of limbs.          *)

LimbBits == 14
Base == 2^LimbBits
MantBits == 53

RECURSIVE Carry(_, _)
\* the limbs, each below Base, of the number with digits d (of any size) plus c
Carry(d, c) ==
    IF d = <<>>
    THEN IF c = 0 THEN <<>> ELSE <<c % Base>> \o Carry(<<>>, c \div Base)
    ELSE <<(d[1] + c) % Base>> \o Carry(Tail(d), (d[1] + c) \div Base)

RECURSIVE Trim(_)
\* without the leading zero limbs
Trim(a) ==
    IF a # <<>> /\ a[Len(a)] = 0 THEN Trim(SubSeq(a, 1, Len(a) - 1)) ELSE a

NatToLimbs(n) == Carry(<<>>, n)

RECURSIVE LimbsToNat(_)
LimbsToNat(a) ==
    IF a = <<>> THEN 0 ELSE a[1] + Base * LimbsToNat(Tail(a))

Limb(a, i) == IF i >= 1 /\ i <= Len(a) THEN a[i] ELSE 0

RECURSIVE ConvSum(_, _, _, _)
\* sum of a[j] * b[k + 1 - j] for j in i..Len(a)
ConvSum(a, b, k, i) ==
    IF i > Len(a) THEN 0
    ELSE Limb(a, i) * Limb(b, k + 1 - i) + ConvSum(a, b, k, i + 1)

MulLimbs(a, b) ==
    IF a = <<>> \/ b = <<>> THEN <<>>
    ELSE Trim(Carry([k \in 1..(Len(a) + Len(b) - 1) |-> ConvSum(a, b, k, 1)], 0))

RECURSIVE SmallBitLen(_)
SmallBitLen(n) == IF n = 0 THEN 0 ELSE 1 + SmallBitLen(n \div 2)

\* the number of bits of a trimmed limb sequence
BitLen(a) ==
    IF a = <<>> THEN 0 ELSE LimbBits * (Len(a) - 1) + SmallBitLen(a[Len(a)])

\* bit i (from 0) of a
Bit(a, i) == (Limb(a, i \div LimbBits + 1) \div 2^(i % LimbBits)) % 2

\* whether the bits of a below bit n are all zero
LowZero(a, n) ==
    /\ \A j \in 1..(n \div LimbBits) : Limb(a, j) = 0
    /\ Limb(a, n \div LimbBits + 1) % 2^(n % LimbBits) = 0

\* a shifted right by s bits
ShiftRight(a, s) ==
    LET q == s \div LimbBits
        r == s % LimbBits
    IN  Trim([j \in 1..(IF Len(a) > q THEN Len(a) - q ELSE 0) |->
                 (Limb(a, j + q) \div 2^r)
                 + (Limb(a, j + q + 1) % 2^r) * 2^(LimbBits - r)])

\* a shifted left by s bits
ShiftLeft(a, s) ==
    IF a = <<>> THEN <<>>
    ELSE Trim([j \in 1..(s \div LimbBits) |-> 0]
              \o Carry([j \in 1..Len(a) |-> a[j] * 2^(s % LimbBits)], 0))

RECURSIVE LessLimbs(_, _)
\* a < b, both trimmed
LessLimbs(a, b) ==
    IF Len(a) # Len(b) THEN Len(a) < Len(b)
    ELSE IF a = <<>> THEN FALSE
    ELSE IF a[Len(a)] # b[Len(b)] THEN a[Len(a)] < b[Len(b)]
    ELSE LessLimbs(SubSeq(a, 1, Len(a) - 1), SubSeq(b, 1, Len(b) - 1))

RECURSIVE DivSmall(_, _, _)
\* <<quotient limbs, remainder>> of (r * Base^Len(a) + a) by the small number d
DivSmall(a, d, r) ==
    IF a = <<>> THEN <<<<>>, r>>
    ELSE LET cur == r * Base + a[Len(a)]
             rest == DivSmall(SubSeq(a, 1, Len(a) - 1), d, cur % d)
         IN  <<Append(rest[1], cur \div d), rest[2]>>

-----------------------------------------------------------------------------
(* IEEE-754 doubles.                                                       *)

RECURSIVE TrailingZeros(_)
\* the number of zero bits below the lowest set bit of p # 0
TrailingZeros(p) ==
    IF p[1] = 0 THEN LimbBits + TrailingZeros(Tail(p))
    ELSE CHOOSE k \in 0..(LimbBits - 1) : p[1] % 2^k = 0 /\ (p[1] \div 2^k) % 2 = 1

\* the one record that stands for the value p * 2^e: p odd, or zero
Canon(p, e) ==
    IF p = <<>> THEN [m |-> <<>>, e |-> 0]
    ELSE [m |-> ShiftRight(p, TrailingZeros(p)), e |-> e + TrailingZeros(p)]

\* p * 2^e (a little more when sticky) rounded to a double: to nearest, ties to even
RoundDouble(p, e, sticky) ==
    LET L == BitLen(p)
        s == L - MantBits
    IN  IF s <= 0 THEN Canon(p, e)
        ELSE LET q == ShiftRight(p, s)
                 above == Bit(p, s - 1) = 1
                 tie == LowZero(p, s - 1) /\ ~sticky
                 up == above /\ (~tie \/ Bit(q, 0) = 1)
             IN  Canon(IF up THEN Carry(q, 1) ELSE q, e + s)

FFromNat(n) == Canon(NatToLimbs(n), 0)

\* x * y of two floats
FMul(x, y) == RoundDouble(MulLimbs(x.m, y.m), x.e + y.e, FALSE)

GuardLimbs == 5

\* n / d of two ints (true division), and the double a decimal literal n/d denotes
FDivNat(n, d) ==
    LET qr == DivSmall([j \in 1..GuardLimbs |-> 0] \o NatToLimbs(n), d, 0)
    IN  RoundDouble(Trim(qr[1]), 0 - LimbBits * GuardLimbs, qr[2] # 0)

\* x < y
FLess(x, y) ==
    IF x.e >= y.e THEN LessLimbs(ShiftLeft(x.m, x.e - y.e), y.m)
    ELSE LessLimbs(x.m, ShiftLeft(y.m, y.e - x.e))

\* int(x): truncation toward zero of a non-negative float
FTrunc(x) ==
    IF x.e >= 0 THEN LimbsToNat(ShiftLeft(x.m, x.e))
    ELSE LimbsToNat(ShiftRight(x.m, 0 - x.e))

\* the double a decimal literal with value n/d denotes (the nearest one)
Lit(n, d) == FDivNat(n, d)

-----------------------------------------------------------------------------
(* Python values.                                                          *)

\* Optional[T]: None is the empty sequence, a value x the sequence <<x>>
None == <<>>
Some(x) == <<x>>

BASE_ML_PER_KG == 35

Activities == {"low", "normal", "high"}

\* calculate_goal_ml(weight_kg, age, activity, weather_temp_c): age and
\* weather_temp_c are Optional; weight_kg is a float with a whole value
calculate_goal_ml(weight_kg, age, activity, weather_temp_c) ==
    LET base == FMul(FFromNat(weight_kg), FFromNat(BASE_ML_PER_KG))
        m0 == FFromNat(1)
        m1 == IF activity = "low" THEN FMul(m0, Lit(95, 100))
              ELSE IF activity = "high" THEN FMul(m0, Lit(12, 10))
              ELSE m0
        m2 == IF age # None /\ age[1] >= 65 THEN FMul(m1, Lit(9, 10)) ELSE m1
        m3 == IF weather_temp_c # None
              THEN IF weather_temp_c[1] >= 30 THEN FMul(m2, Lit(125, 100))
                   ELSE IF weather_temp_c[1] >= 25 THEN FMul(m2, Lit(110, 100))
                   ELSE m2
              ELSE m2
    IN  FTrunc(FMul(base, m3))

\* how an evaluation ends: with a value, or with an exception raised
Return(x) == [val |-> x]
Raise(e) == [exc |-> e]
Returned(r) == "val" \in DOMAIN r

\* n / d of two ints
PyDiv(n, d) == IF d = 0 THEN Raise("ZeroDivisionError") ELSE Return(FDivNat(n, d))

-----------------------------------------------------------------------------
(* The clock and the tables.                                               *)

TicksPerDay == 2
StreakDays == 7

\* date.today(): the local calendar date, as a day number
Today == (now + tz) \div TicksPerDay

\* DayEnd reaching the first instant of the next day
DayEnd_NextMidnight(d) == (d + 1) * TicksPerDay

\* datetime.combine(d, datetime.min.time()) and datetime.combine(d, datetime.max.time())
DayStart(d) == d * TicksPerDay
DayEnd(d) == d * TicksPerDay + (TicksPerDay - 1)

RECURSIVE SumAmounts(_)
SumAmounts(rows) ==
    IF rows = <<>> THEN 0 ELSE rows[1].amount_ml + SumAmounts(Tail(rows))

\* SELECT SUM(amount_ml) FROM logs WHERE logged_at BETWEEN lo AND hi, and
\* int(row[0]) if row and row[0] else 0: NULL (no row selected) and 0 both give 0
SelectSum(rows, lo, hi) ==
    SumAmounts(SelectSeq(rows, LAMBDA r : lo <= r.logged_at /\ r.logged_at <= hi))

\* get_totals_for_days(days) on the rows of logs: oldest day first
TotalsForDays(rows, days) ==
    [k \in 1..days |->
        LET d == Today - (days - k)
        IN  [date |-> d, total_ml |-> SelectSum(rows, DayStart(d), DayEnd(d))]]

get_totals_for_days(days) == TotalsForDays(logs, days)

TodayTotal(rows) == SelectSum(rows, DayStart(Today), DayEnd(Today))

get_today_total == TodayTotal(logs)

\* get_profile(): the newest row, or None
get_profile == profile

\* the goal of a profile row without the weather term, as the callers compute it
ProfileGoal(p) == calculate_goal_ml(p.weight_kg, Some(p.age), p.activity, None)

-----------------------------------------------------------------------------
(* The inputs of the handlers and the bounds of the model.                 *)

MaxTick == 15
MaxLogs == 7

\* the amounts logged, from the "Log custom" input
Amounts == {630}

\* the profiles the form saves, [age, weight_kg, activity]: goals 840 and 1050
FormProfiles ==
    { [age |-> 30, weight_kg |-> 20, activity |-> "high"],
      [age |-> 30, weight_kg |-> 30, activity |-> "normal"] }

\* the amounts and profiles of the stored states the read-only functions are applied to
ViewAmounts == {490, 630}
ViewProfiles ==
    { [age |-> 30, weight_kg |-> 20, activity |-> "normal"],
      [age |-> 70, weight_kg |-> 20, activity |-> "normal"],
      [age |-> 30, weight_kg |-> 20, activity |-> "high"] }

AllProfiles == FormProfiles \cup ViewProfiles

\* local clock minus UTC clock, in ticks: half a day behind, none, half a day ahead
Offsets == (1 - TicksPerDay)..(TicksPerDay - 1)

\* the goals of the profiles used, computed once
GoalOf == [p \in AllProfiles |-> ProfileGoal(p)]

\* 0.75 * goal, 0.7 * goal and 0.9 * goal for each profile used, computed once
StreakThreshold == [p \in AllProfiles |-> FMul(Lit(75, 100), FFromNat(GoalOf[p]))]
Nudge70 == [p \in AllProfiles |-> FMul(Lit(7, 10), FFromNat(GoalOf[p]))]
Nudge90 == [p \in AllProfiles |-> FMul(Lit(9, 10), FFromNat(GoalOf[p]))]

-----------------------------------------------------------------------------
(* Badges and streaks.                                                     *)

\* SELECT * FROM badges WHERE name = ?, then c.fetchone(): whether a row came back
HasBadge(b, name) == \E i \in 1..Len(b) : b[i].name = name

\* the totals a day can have, one event at most being stamped with each tick
DayTotals ==
    { SumAmounts([k \in 1..TicksPerDay |-> [amount_ml |-> f[k]]]) :
        f \in [1..TicksPerDay -> {0} \cup Amounts \cup ViewAmounts] }

\* total_ml >= 0.75 * goal, an int against a float, for each profile and day total
\* used, computed once
MeetsGoal ==
    [p \in AllProfiles |->
        [t \in DayTotals |-> ~FLess(FFromNat(t), StreakThreshold[p])]]

\* t['total_ml'] >= 0.75 * goal with > in the place of >=
GoodDay_Strict(total_ml, p) == FLess(StreakThreshold[p], FFromNat(total_ml))

\* t['total_ml'] >= 0.75 * goal
GoodDay(total_ml, p) ==
    IF total_ml \in DayTotals THEN MeetsGoal[p][total_ml]
    ELSE ~FLess(FFromNat(total_ml), StreakThreshold[p])

\* sum(1 for t in totals if t['total_ml'] >= 0.75 * goal)
GoodDays(totals, p) ==
    Cardinality({k \in 1..Len(totals) : GoodDay(totals[k].total_ml, p)})

\* BadgesAfterCheck without the test that "first-log" is not in the table yet
BadgesAfterCheck_NoFirstLogTest(b) ==
    IF get_profile = None THEN b
    ELSE LET b1 == IF GoodDays(get_totals_for_days(StreakDays), get_profile[1]) = 7
                      /\ ~HasBadge(b, "7-day-streak")
                   THEN Append(b, [name |-> "7-day-streak", earned_at |-> now])
                   ELSE b
         IN  IF Len(logs) >= 1
             THEN Append(b1, [name |-> "first-log", earned_at |-> now])
             ELSE b1

\* BadgesAfterCheck without the test that "7-day-streak" is not in the table yet
BadgesAfterCheck_NoStreakTest(b) ==
    IF get_profile = None THEN b
    ELSE LET b1 == IF GoodDays(get_totals_for_days(StreakDays), get_profile[1]) = 7
                   THEN Append(b, [name |-> "7-day-streak", earned_at |-> now])
                   ELSE b
         IN  IF Len(logs) >= 1 /\ ~HasBadge(b1, "first-log")
             THEN Append(b1, [name |-> "first-log", earned_at |-> now])
             ELSE b1

\* table badges after check_badges_and_streaks() has run on table b
BadgesAfterCheck(b) ==
    IF get_profile = None THEN b
    ELSE LET totals == get_totals_for_days(StreakDays)
             good_days == GoodDays(totals, get_profile[1])
             b1 == IF good_days = 7 /\ ~HasBadge(b, "7-day-streak")
                   THEN Append(b, [name |-> "7-day-streak", earned_at |-> now])
                   ELSE b
             total_logs == Len(logs)
             first_log_badge_exists == HasBadge(b1, "first-log")
         IN  IF total_logs >= 1 /\ ~first_log_badge_exists
             THEN Append(b1, [name |-> "first-log", earned_at |-> now])
             ELSE b1

-----------------------------------------------------------------------------
(* The predictor.                                                          *)

RECURSIVE SumTotals(_)
\* sum(t['total_ml'] for t in totals)
SumTotals(totals) ==
    IF totals = <<>> THEN 0 ELSE totals[1].total_ml + SumTotals(Tail(totals))

\* totals[-3:]
LastThree(totals) ==
    SubSeq(totals, IF Len(totals) > 3 THEN Len(totals) - 2 ELSE 1, Len(totals))

\* predictor_adjustment dividing by the number of days that have events
predictor_adjustment_LoggedDays ==
    LET recent == LastThree(get_totals_for_days(7))
        count == Cardinality({k \in 1..Len(recent) : recent[k].total_ml > 0})
        avg == PyDiv(SumTotals(recent), count)
    IN  IF ~Returned(avg) THEN avg
        ELSE IF get_profile = None THEN Return(Lit(10, 10))
        ELSE IF FLess(avg.val, Nudge70[get_profile[1]]) THEN Return(Lit(12, 10))
        ELSE IF FLess(avg.val, Nudge90[get_profile[1]]) THEN Return(Lit(105, 100))
        ELSE Return(Lit(10, 10))

\* predictor_adjustment with <= in the place of <
predictor_adjustment_AtMost ==
    LET avg == PyDiv(SumTotals(LastThree(get_totals_for_days(7))), 3)
    IN  IF get_profile = None THEN Return(Lit(10, 10))
        ELSE IF ~FLess(Nudge70[get_profile[1]], avg.val) THEN Return(Lit(12, 10))
        ELSE IF ~FLess(Nudge90[get_profile[1]], avg.val) THEN Return(Lit(105, 100))
        ELSE Return(Lit(10, 10))

\* predictor_adjustment(): how the call ends
predictor_adjustment ==
    LET totals == get_totals_for_days(7)
        recent == IF Len(totals) >= 1 THEN LastThree(totals) ELSE totals
        count == IF Len(recent) > 0 THEN Len(recent) ELSE 1
        avg == PyDiv(SumTotals(recent), count)
    IN  IF ~Returned(avg) THEN avg
        ELSE IF get_profile = None THEN Return(Lit(10, 10))
        ELSE IF FLess(avg.val, Nudge70[get_profile[1]]) THEN Return(Lit(12, 10))
        ELSE IF FLess(avg.val, Nudge90[get_profile[1]]) THEN Return(Lit(105, 100))
        ELSE Return(Lit(10, 10))

-----------------------------------------------------------------------------
(* The handlers.                                                           *)

Init ==
    /\ now = TicksPerDay
    /\ tz \in Offsets
    /\ profile = None
    /\ logs = <<>>
    /\ badges = <<>>
    /\ pc = "idle"
    /\ evals = 0
    /\ evalSaw = 0
    /\ call = None

\* time passes between two handlers
Tick ==
    /\ pc = "idle"
    /\ now < MaxTick
    /\ now' = now + 1
    /\ UNCHANGED <<tz, profile, logs, badges, pc, evals, evalSaw, call>>

\* set_profile(name, age, weight_kg, activity): a new newest row
set_profile(age, weight_kg, activity) ==
    /\ pc = "idle"
    /\ profile' = Some([age |-> age, weight_kg |-> weight_kg, activity |-> activity])
    /\ UNCHANGED <<now, tz, logs, badges, pc, evals, evalSaw, call>>

SetProfile == \E p \in FormProfiles : set_profile(p.age, p.weight_kg, p.activity)

\* log_water_ml returning without the call of check_badges_and_streaks
log_water_ml_NoCheck(amount_ml) ==
    /\ pc = "idle"
    /\ Len(logs) < MaxLogs
    /\ \A i \in 1..Len(logs) : logs[i].logged_at < now
    /\ logs' = Append(logs, [logged_at |-> now, amount_ml |-> amount_ml])
    /\ UNCHANGED <<now, tz, profile, badges, pc, evals, evalSaw, call>>

\* log_water_ml(amount_ml), to the commit of the insert.  datetime.utcnow() has
\* a resolution of a microsecond: no two inserts write the same timestamp
log_water_ml(amount_ml) ==
    /\ pc = "idle"
    /\ Len(logs) < MaxLogs
    /\ \A i \in 1..Len(logs) : logs[i].logged_at < now
    /\ logs' = Append(logs, [logged_at |-> now, amount_ml |-> amount_ml])
    /\ pc' = "logged"
    /\ UNCHANGED <<now, tz, profile, badges, evals, evalSaw, call>>

LogWater == \E a \in Amounts : log_water_ml(a)

\* check_badges_and_streaks(), the rest of log_water_ml
check_badges_and_streaks ==
    /\ pc = "logged"
    /\ badges' = BadgesAfterCheck(badges)
    /\ evals' = evals + 1
    /\ evalSaw' = Len(logs)
    /\ pc' = "idle"
    /\ UNCHANGED <<now, tz, profile, logs, call>>

Next == Tick \/ SetProfile \/ LogWater \/ check_badges_and_streaks

Spec == Init /\ [][Next]_vars

-----------------------------------------------------------------------------
(* calculate_goal_ml applied to arguments drawn from bounded sets.         *)

GoalWeights == {20, 65, 70, 137, 200, 300}
GoalAges == {None, Some(30), Some(64), Some(65), Some(70)}
GoalTemps == {None, Some(24), Some(25), Some(29), Some(30), Some(31)}

InitGoal ==
    /\ now = TicksPerDay
    /\ tz = 0
    /\ profile = None
    /\ logs = <<>>
    /\ badges = <<>>
    /\ pc = "idle"
    /\ evals = 0
    /\ evalSaw = 0
    /\ \E w \in GoalWeights, a \in GoalAges, act \in Activities, t \in GoalTemps :
          call = Some([fn |-> "calculate_goal_ml", args |-> <<w, a, act, t>>, ret |-> None])

CallGoal ==
    /\ call # None
    /\ call[1].fn = "calculate_goal_ml"
    /\ call[1].ret = None
    /\ call' = Some([call[1] EXCEPT !.ret =
                        Some(calculate_goal_ml(call[1].args[1], call[1].args[2],
                                               call[1].args[3], call[1].args[4]))])
    /\ UNCHANGED <<now, tz, profile, logs, badges, pc, evals, evalSaw>>

NextGoal == CallGoal

SpecGoal == InitGoal /\ [][NextGoal]_vars

-----------------------------------------------------------------------------
(* The read-only functions applied to stored states: a log written while   *)
(* no profile was saved (so that no badge was awarded), then a profile     *)
(* saved or not.                                                           *)

ViewNow == 18

\* how long before ViewNow, in ticks, the stored events may have been logged:
\* the last three days, and the days where the 7-day window begins
RecentAges == 0..5
OldAges == 12..14

RECURSIVE HistoryRows(_, _, _)
\* the rows of the events h, a function from ticks to amounts (0: no event), from tick t to hi
HistoryRows(h, t, hi) ==
    IF t > hi THEN <<>>
    ELSE (IF t \in DOMAIN h /\ h[t] # 0
          THEN <<[logged_at |-> t, amount_ml |-> h[t]]>>
          ELSE <<>>) \o HistoryRows(h, t + 1, hi)

Histories ==
    { h \in [{ViewNow - k : k \in RecentAges \cup OldAges} -> {0} \cup ViewAmounts] :
        \A k \in OldAges : h[ViewNow - k] \in {0, 490} }

InitView ==
    /\ now = ViewNow
    /\ tz \in Offsets
    /\ profile \in {None} \cup {Some(p) : p \in ViewProfiles}
    /\ \E h \in Histories : logs = HistoryRows(h, 0, ViewNow)
    /\ badges = <<>>
    /\ pc = "idle"
    /\ evals = Len(logs)
    /\ evalSaw = Len(logs)
    /\ call = None

CallPredictor ==
    /\ call = None
    /\ call' = Some([fn |-> "predictor_adjustment", ret |-> predictor_adjustment])
    /\ UNCHANGED <<now, tz, profile, logs, badges, pc, evals, evalSaw>>

CallTotals ==
    /\ call = None
    /\ call' = Some([fn |-> "get_totals_for_days", ret |-> get_totals_for_days(7)])
    /\ UNCHANGED <<now, tz, profile, logs, badges, pc, evals, evalSaw>>

CallToday ==
    /\ call = None
    /\ call' = Some([fn |-> "get_today_total", ret |-> get_today_total])
    /\ UNCHANGED <<now, tz, profile, logs, badges, pc, evals, evalSaw>>

NextView == CallPredictor \/ CallTotals \/ CallToday

SpecView == InitView /\ [][NextView]_vars

-----------------------------------------------------------------------------
(* The claims.                                                             *)

\* the calendar date a stored timestamp falls on
DateOf(t) == t \div TicksPerDay

\* the sum of the amounts of the events of rows that fall on a date of days
SumOn(rows, days) ==
    SumAmounts(SelectSeq(rows, LAMBDA r : DateOf(r.logged_at) \in days))

\* the last n calendar days ending today
LastDays(n) == (Today - (n - 1))..Today

Done(fn) == call # None /\ call[1].fn = fn /\ (fn = "calculate_goal_ml" => call[1].ret # None)

\* C1, as claimed: from an empty log and an empty badge store, once log_water_ml
\* has returned at least once, "first-log" is in the badge store, whatever the
\* profile state (no profile saved included).
C1_FirstLogAfterFirstCall ==
    (pc = "idle" /\ Len(logs) >= 1) => HasBadge(badges, "first-log")

C3_EvaluationIdempotent ==
    LET first == BadgesAfterCheck(badges)
    IN  BadgesAfterCheck(first) = first

\* C3: the first of the two runs awards both badges
C3_Witness ==
    /\ pc = "logged"
    /\ Len(BadgesAfterCheck(badges)) = Len(badges) + 2

\* C4: an evaluation that runs with a profile saved and "7-day-streak" not in the
\* store awards it if and only if each of the last 7 calendar days has a total,
\* over the events stamped on that day, of at least 0.75 times the goal of the
\* current profile (no weather term).
C4_StreakIffSevenGoodDays ==
    [][(check_badges_and_streaks /\ profile # None /\ ~HasBadge(badges, "7-day-streak"))
        => (HasBadge(badges', "7-day-streak")
              <=> \A d \in LastDays(7) :
                    4 * SumOn(logs, {d}) >= 3 * GoalOf[profile[1]])]_vars

\* C4: the streak badge has been awarded
C4_Witness == HasBadge(badges, "7-day-streak")

\* the value predictor_adjustment returned, once CallPredictor has applied it
PredictorReturned == Done("predictor_adjustment") /\ Returned(call[1].ret)

\* the sum of the last n entries of get_totals_for_days(7)
RecentSum(n) == SumOn(logs, LastDays(n))

\* the nudge for an average of sum / n against goal, in exact arithmetic:
\* 1.2 below 0.70 * goal, 1.05 from there to below 0.90 * goal, 1.0 from there on
NudgeFor(sum, n, goal) ==
    IF 10 * sum < 7 * n * goal THEN Lit(12, 10)
    ELSE IF 10 * sum < 9 * n * goal THEN Lit(105, 100)
    ELSE Lit(10, 10)

\* C5, as claimed: predictor_adjustment does not raise, and returns 1.0 whenever
\* the event history is empty, a profile saved or not.
C5_OneOnEmptyHistory ==
    Done("predictor_adjustment") =>
        /\ Returned(call[1].ret)
        /\ logs = <<>> => call[1].ret.val = Lit(10, 10)

\* C5, amended: predictor_adjustment never raises, whatever the length of the
\* history; it returns 1.0 whenever no profile is saved; with a profile saved
\* (its goal is positive) and an empty history it returns 1.2.
C5_OneWithoutProfile ==
    Done("predictor_adjustment") =>
        /\ Returned(call[1].ret)
        /\ profile = None => call[1].ret.val = Lit(10, 10)
        /\ (profile # None /\ logs = <<>>) =>
              (GoalOf[profile[1]] > 0 /\ call[1].ret.val = Lit(12, 10))

\* C5: the predictor has been applied to an empty history with a profile saved
C5_Witness ==
    /\ PredictorReturned
    /\ profile # None
    /\ logs = <<>>
    /\ call[1].ret.val = Lit(12, 10)

\* how many calendar days the history spans: from the day of the oldest event to today
HistoryDays ==
    IF logs = <<>> \/ DateOf(logs[1].logged_at) > Today THEN 0
    ELSE Today - DateOf(logs[1].logged_at) + 1

\* the number of days C6 averages, as claimed: 3, fewer with a shorter history
ClaimedDays == IF HistoryDays >= 3 THEN 3 ELSE IF HistoryDays >= 1 THEN HistoryDays ELSE 1

CountedIn(r, d) == DayStart(d) <= r.logged_at /\ r.logged_at <= DayEnd(d)

\* C7: get_totals_for_days(7) returns 7 entries, one per calendar day, oldest
\* first and ending today, each the sum of the amounts of the events stamped on
\* that day (0 without events); the entries add up to the sum of the amounts of the
\* events stamped within the last 7 calendar days; each such event is counted in
\* exactly one entry and every other event in none.
C7_TotalsPartitionTheWindow ==
    Done("get_totals_for_days") =>
        LET totals == call[1].ret
        IN  /\ Len(totals) = 7
            /\ \A k \in 1..7 :
                  /\ totals[k].date = Today - (7 - k)
                  /\ totals[k].total_ml = SumOn(logs, {totals[k].date})
            /\ SumTotals(totals) = SumOn(logs, LastDays(7))
            /\ \A i \in 1..Len(logs) :
                  Cardinality({k \in 1..7 : CountedIn(logs[i], totals[k].date)})
                    = IF DateOf(logs[i].logged_at) \in LastDays(7) THEN 1 ELSE 0

\* C7: the totals were taken of a log with events in the window, on its first and
\* on its last day, and an event outside it
C7_Witness ==
    /\ Done("get_totals_for_days")
    /\ \E i \in 1..Len(logs) : DateOf(logs[i].logged_at) = Today - 6
    /\ \E i \in 1..Len(logs) : DateOf(logs[i].logged_at) = Today
    /\ \E i \in 1..Len(logs) : DateOf(logs[i].logged_at) \notin LastDays(7)

\* C8, as claimed: right after the insert of log_water_ml(a), on the same
\* clock reading, get_today_total() is a larger than it was before the call.
C8_TodayGrowsByAmount ==
    pc = "logged" =>
        TodayTotal(logs) = TodayTotal(SubSeq(logs, 1, Len(logs) - 1))
                             + logs[Len(logs)].amount_ml

\* the product of C9 in exact arithmetic, truncated: the factors are 19/20, 1, 24/20
\* for the activity, 9/10 or 1 for the age, 25/20, 22/20 or 1 for the weather
GoalExact(weight_kg, age, activity, weather_temp_c) ==
    LET act == IF activity = "low" THEN 19 ELSE IF activity = "high" THEN 24 ELSE 20
        old == IF age # None /\ age[1] >= 65 THEN 9 ELSE 10
        hot == IF weather_temp_c = None THEN 20
               ELSE IF weather_temp_c[1] >= 30 THEN 25
               ELSE IF weather_temp_c[1] >= 25 THEN 22
               ELSE 20
    IN  (weight_kg * BASE_ML_PER_KG * act * old * hot) \div (20 * 10 * 20)

\* C9, as claimed: calculate_goal_ml returns weight_kg * 35 * activity factor *
\* age factor * weather factor, truncated to an integer.
C9_GoalIsTruncatedProduct ==
    Done("calculate_goal_ml") =>
        call[1].ret[1] = GoalExact(call[1].args[1], call[1].args[2],
                                   call[1].args[3], call[1].args[4])

\* C10: each log_water_ml call runs check_badges_and_streaks exactly once, after
\* its insert is committed and before it returns: when no call is running there
\* have been as many evaluations as inserts, while a call is past its insert the
\* evaluation of that insert, and only that one, is yet to run, and each
\* evaluation was entered with the row of its call in table logs.
C10_OneEvaluationAfterEachInsert ==
    /\ pc = "idle" => evals = Len(logs)
    /\ pc = "logged" => evals + 1 = Len(logs)
    /\ evals >= 1 => evalSaw = evals

\* C10: two calls have returned
C10_Witness == pc = "idle" /\ evals >= 2 /\ Len(logs) = evals
====
